---- MODULE Spec2Model ----
(***************************************************************************)
(* A model of the prompt library: the JSON store (load_prompts,            *)
(* save_prompts), the mutators (add_prompt, update_usage, add_rating), the *)
(* Submit Prompt form handler, the Browse page's sort, the Statistics      *)
(* page's average rating, and the seed utility (seed_prompts).             *)
(***************************************************************************)
EXTENDS Integers, Sequences, FiniteSets, TLC

(***************************************************************************)
(* Binary floating point.  Python's float is an IEEE-754 double: 53        *)
(* significant bits, every operation rounded to nearest, ties to even.     *)
(* A natural number is a sequence of 16-bit limbs, least significant       *)
(* first, with no leading (last) zero limb; a non-negative double is Zero  *)
(* or a record [m, e] with m a natural of exactly MantBits bits and value  *)
(* m * 2^e.  The values of the program stay far from overflow and from     *)
(* subnormals.  Limbs keep every intermediate product exact.               *)
(***************************************************************************)
MantBits == 53
LimbBits == 16

Pow2(k) == <<1, 2, 4, 8, 16, 32, 64, 128, 256, 512, 1024, 2048, 4096, 8192,
             16384, 32768, 65536>>[k + 1]

Base == Pow2(LimbBits)

Limb(a, j) == IF j >= 1 /\ j <= Len(a) THEN a[j] ELSE 0

Trim(a) ==
  LET nz == {j \in 1..Len(a) : a[j] # 0}
  IN IF nz = {} THEN << >>
     ELSE SubSeq(a, 1, CHOOSE j \in nz : \A k \in nz : k <= j)

NatToLimbs(n) == Trim(<<n % Base, n \div Base>>)

\* number of bits of the natural a
BitLen(a) ==
  IF a = << >> THEN 0
  ELSE LimbBits * (Len(a) - 1)
       + Cardinality({k \in 0..(LimbBits - 1) : Pow2(k) <= a[Len(a)]})

\* bit i (from 0) of the natural a
BitAt(a, i) == (Limb(a, i \div LimbBits + 1) \div Pow2(i % LimbBits)) % 2

\* whether some bit of a below bit i is set
LowBits(a, i) ==
  \/ \E j \in 1..(i \div LimbBits) : Limb(a, j) # 0
  \/ Limb(a, i \div LimbBits + 1) % Pow2(i % LimbBits) # 0

ShiftLeft(a, k) ==
  LET q == k \div LimbBits
      r == k % LimbBits
  IN Trim([j \in 1..q |-> 0] \o
          [j \in 1..(Len(a) + 1) |->
             (Limb(a, j) % Pow2(LimbBits - r)) * Pow2(r)
             + Limb(a, j - 1) \div Pow2(LimbBits - r)])

ShiftRight(a, k) ==
  LET q == k \div LimbBits
      r == k % LimbBits
  IN Trim([j \in 1..(Len(a) - q) |->
             Limb(a, j + q) \div Pow2(r)
             + (Limb(a, j + q + 1) % Pow2(r)) * Pow2(LimbBits - r)])

\* carry out of limb j of a + b
RECURSIVE AddCarry(_, _, _)
AddCarry(a, b, j) ==
  IF j = 0 THEN 0 ELSE (Limb(a, j) + Limb(b, j) + AddCarry(a, b, j - 1)) \div Base

AddNat(a, b) ==
  LET n == (IF Len(a) >= Len(b) THEN Len(a) ELSE Len(b)) + 1
  IN Trim([j \in 1..n |-> (Limb(a, j) + Limb(b, j) + AddCarry(a, b, j - 1)) % Base])

\* carry out of limb j of a * n, for 0 <= n < 2^15
RECURSIVE MulCarry(_, _, _)
MulCarry(a, n, j) ==
  IF j = 0 THEN 0 ELSE (Limb(a, j) * n + MulCarry(a, n, j - 1)) \div Base

MulNat(a, n) ==
  Trim([j \in 1..(Len(a) + 1) |-> (Limb(a, j) * n + MulCarry(a, n, j - 1)) % Base])

\* Long division of a by d, 0 < d < 2^15, from the most significant limb
\* down: the remainder left after limb j (limbs above Len(a) leave 0).
RECURSIVE DivRem(_, _, _)
DivRem(a, d, j) ==
  IF j > Len(a) THEN 0 ELSE (DivRem(a, d, j + 1) * Base + a[j]) % d

DivNat(a, d) ==
  Trim([j \in 1..Len(a) |-> (DivRem(a, d, j + 1) * Base + a[j]) \div d])

Zero == [m |-> << >>, e |-> 0]

\* The double nearest to n * 2^e (+ a positive amount below 2^e when sticky),
\* ties to even.
RoundNat(n, e, sticky) ==
  LET L == BitLen(n) IN
  IF L = 0 THEN Zero
  ELSE IF L <= MantBits
  THEN [m |-> ShiftLeft(n, MantBits - L), e |-> e - (MantBits - L)]
  ELSE LET k == L - MantBits
           kept == ShiftRight(n, k)
           half == BitAt(n, k - 1) = 1
           rest == sticky \/ LowBits(n, k - 1)
           up == half /\ (rest \/ kept[1] % 2 = 1)
           r == IF up THEN AddNat(kept, <<1>>) ELSE kept
       IN IF BitLen(r) > MantBits
          THEN [m |-> ShiftRight(r, 1), e |-> e + k + 1]
          ELSE [m |-> r, e |-> e + k]

\* The operands of an operation are evaluated once, before the operation.
RoundF(n0, e, sticky) == CHOOSE r \in {RoundNat(n, e, sticky) : n \in {n0}} : TRUE

\* float(n) of a Python int, 0 <= n < 2^31
FFromInt(n) == RoundF(NatToLimbs(n), 0, FALSE)

\* x + y of two doubles
FAddV(x, y) ==
  IF x = Zero THEN y
  ELSE IF y = Zero THEN x
  ELSE LET lo == IF x.e <= y.e THEN x ELSE y
           hi == IF x.e <= y.e THEN y ELSE x
       IN RoundF(AddNat(lo.m, ShiftLeft(hi.m, hi.e - lo.e)), lo.e, FALSE)

FAdd(x0, y0) == CHOOSE r \in {FAddV(p[1], p[2]) : p \in {<<x0, y0>>}} : TRUE

\* x * n of a double and a Python int, 0 <= n < 2^15
FMulIntV(x, n) ==
  IF x = Zero \/ n = 0 THEN Zero
  ELSE RoundF(MulNat(x.m, n), x.e, FALSE)

FMulInt(x0, n) == CHOOSE r \in {FMulIntV(x, n) : x \in {x0}} : TRUE

\* x / d of a double and a Python int, 0 < d < 2^15
FDivIntV(x, d) ==
  IF x = Zero THEN Zero
  ELSE LET a == ShiftLeft(x.m, LimbBits)
       IN RoundF(DivNat(a, d), x.e - LimbBits, DivRem(a, d, 1) # 0)

FDivInt(x0, d) == CHOOSE r \in {FDivIntV(x, d) : x \in {x0}} : TRUE

\* x < y of two doubles
FLess(x, y) ==
  IF y = Zero THEN FALSE
  ELSE IF x = Zero THEN TRUE
  ELSE IF x.e # y.e THEN x.e < y.e
  ELSE \E j \in 1..Len(x.m) :
         /\ x.m[j] < y.m[j]
         /\ \A k \in (j + 1)..Len(x.m) : x.m[k] = y.m[k]

(***************************************************************************)
(* Text.  A str is a TLA+ string; the operations that look inside one      *)
(* (lower, in, split, strip) work on its characters, which Chars gives for *)
(* every string of the model.  The seed prompts' bodies, about a thousand  *)
(* characters each, are cut to their first word.                           *)
(***************************************************************************)
Texts ==
  {"", "T", "body", "Alice",
   "x", "x, ", " x ,,y", "y",
   "m", "MOCK", "API Client Generator", "Data Pipeline Builder",
   "Pytest Test Suite Generator", "CLI Tool with argparse", "Refactoring: Extract Method", "python",
   "api", "rest", "client", "testing",
   "etl", "pipeline", "batch", "data-processing",
   "pytest", "tdd", "quality", "cli",
   "argparse", "automation", "refactoring", "clean-code",
   "maintainability", "Erstelle", "Generiere", "Refactore"}

Chars(s) ==
  CASE s = "" -> << >>
    [] s = "T" -> <<"T">>
    [] s = "body" -> <<"b", "o", "d", "y">>
    [] s = "Alice" -> <<"A", "l", "i", "c", "e">>
    [] s = "x" -> <<"x">>
    [] s = "x, " -> <<"x", ",", " ">>
    [] s = " x ,,y" -> <<" ", "x", " ", ",", ",", "y">>
    [] s = "y" -> <<"y">>
    [] s = "m" -> <<"m">>
    [] s = "MOCK" -> <<"M", "O", "C", "K">>
    [] s = "API Client Generator" -> <<"A", "P", "I", " ", "C", "l", "i", "e", "n", "t", " ", "G", "e", "n", "e", "r", "a", "t", "o", "r">>
    [] s = "Data Pipeline Builder" -> <<"D", "a", "t", "a", " ", "P", "i", "p", "e", "l", "i", "n", "e", " ", "B", "u", "i", "l", "d", "e", "r">>
    [] s = "Pytest Test Suite Generator" -> <<"P", "y", "t", "e", "s", "t", " ", "T", "e", "s", "t", " ", "S", "u", "i", "t", "e", " ", "G", "e", "n", "e", "r", "a", "t", "o", "r">>
    [] s = "CLI Tool with argparse" -> <<"C", "L", "I", " ", "T", "o", "o", "l", " ", "w", "i", "t", "h", " ", "a", "r", "g", "p", "a", "r", "s", "e">>
    [] s = "Refactoring: Extract Method" -> <<"R", "e", "f", "a", "c", "t", "o", "r", "i", "n", "g", ":", " ", "E", "x", "t", "r", "a", "c", "t", " ", "M", "e", "t", "h", "o", "d">>
    [] s = "python" -> <<"p", "y", "t", "h", "o", "n">>
    [] s = "api" -> <<"a", "p", "i">>
    [] s = "rest" -> <<"r", "e", "s", "t">>
    [] s = "client" -> <<"c", "l", "i", "e", "n", "t">>
    [] s = "testing" -> <<"t", "e", "s", "t", "i", "n", "g">>
    [] s = "etl" -> <<"e", "t", "l">>
    [] s = "pipeline" -> <<"p", "i", "p", "e", "l", "i", "n", "e">>
    [] s = "batch" -> <<"b", "a", "t", "c", "h">>
    [] s = "data-processing" -> <<"d", "a", "t", "a", "-", "p", "r", "o", "c", "e", "s", "s", "i", "n", "g">>
    [] s = "pytest" -> <<"p", "y", "t", "e", "s", "t">>
    [] s = "tdd" -> <<"t", "d", "d">>
    [] s = "quality" -> <<"q", "u", "a", "l", "i", "t", "y">>
    [] s = "cli" -> <<"c", "l", "i">>
    [] s = "argparse" -> <<"a", "r", "g", "p", "a", "r", "s", "e">>
    [] s = "automation" -> <<"a", "u", "t", "o", "m", "a", "t", "i", "o", "n">>
    [] s = "refactoring" -> <<"r", "e", "f", "a", "c", "t", "o", "r", "i", "n", "g">>
    [] s = "clean-code" -> <<"c", "l", "e", "a", "n", "-", "c", "o", "d", "e">>
    [] s = "maintainability" -> <<"m", "a", "i", "n", "t", "a", "i", "n", "a", "b", "i", "l", "i", "t", "y">>
    [] s = "Erstelle" -> <<"E", "r", "s", "t", "e", "l", "l", "e">>
    [] s = "Generiere" -> <<"G", "e", "n", "e", "r", "i", "e", "r", "e">>
    [] s = "Refactore" -> <<"R", "e", "f", "a", "c", "t", "o", "r", "e">>

FromChars(cs) == CHOOSE s \in Texts : Chars(s) = cs

LowerChar(c) ==
  CASE c = "A" -> "a"
    [] c = "B" -> "b"
    [] c = "C" -> "c"
    [] c = "D" -> "d"
    [] c = "E" -> "e"
    [] c = "F" -> "f"
    [] c = "G" -> "g"
    [] c = "H" -> "h"
    [] c = "I" -> "i"
    [] c = "J" -> "j"
    [] c = "K" -> "k"
    [] c = "L" -> "l"
    [] c = "M" -> "m"
    [] c = "N" -> "n"
    [] c = "O" -> "o"
    [] c = "P" -> "p"
    [] c = "Q" -> "q"
    [] c = "R" -> "r"
    [] c = "S" -> "s"
    [] c = "T" -> "t"
    [] c = "U" -> "u"
    [] c = "V" -> "v"
    [] c = "W" -> "w"
    [] c = "X" -> "x"
    [] c = "Y" -> "y"
    [] c = "Z" -> "z"
    [] OTHER -> c

\* s.lower(), as characters
Lower(s) == [i \in 1..Len(Chars(s)) |-> LowerChar(Chars(s)[i])]

\* sub in s, both as characters
Contains(sub, s) ==
  \E i \in 0..(Len(s) - Len(sub)) : SubSeq(s, i + 1, i + Len(sub)) = sub

\* s.strip(), as characters
RECURSIVE StripChars(_)
StripChars(cs) ==
  IF cs = << >> THEN cs
  ELSE IF Head(cs) = " " THEN StripChars(Tail(cs))
  ELSE IF cs[Len(cs)] = " " THEN StripChars(SubSeq(cs, 1, Len(cs) - 1))
  ELSE cs

\* s.split(","), as characters: the pieces between the commas
RECURSIVE SplitChars(_)
SplitChars(cs) ==
  LET commas == {i \in 1..Len(cs) : cs[i] = ","}
  IN IF commas = {} THEN <<cs>>
     ELSE LET i == CHOOSE j \in commas : \A k \in commas : j <= k
          IN <<SubSeq(cs, 1, i - 1)>> \o SplitChars(SubSeq(cs, i + 1, Len(cs)))

(***************************************************************************)
(* The data model                                                          *)
(***************************************************************************)
CATEGORIES ==
  <<"API Development", "Testing", "Documentation", "Refactoring",
    "Data Processing", "DevOps/CI-CD", "Architecture", "Debugging",
    "Code Review", "Other">>

RatingChoices == <<1, 2, 3, 4, 5>>

Range(s) == {s[i] : i \in 1..Len(s)}

\* a prompt record, as add_prompt builds it and SEED_PROMPTS lists it
PromptRecord(id, title, category, prompt, author, tags, rating, votes, usage_count, created_at) ==
  [id |-> id, title |-> title, category |-> category, prompt |-> prompt,
   author |-> author, tags |-> tags, rating |-> rating, votes |-> votes,
   usage_count |-> usage_count, created_at |-> created_at,
   comments |-> << >>]

\* a decimal literal with one digit after the point: the nearest double
Decimal1(tenths) == FDivInt(FFromInt(tenths), 10)

\* the "rating" literals of SEED_PROMPTS: 4.5, 5.0, 4.8, 4.2, 4.6
SEED_RATINGS == <<Decimal1(45), Decimal1(50), Decimal1(48), Decimal1(42), Decimal1(46)>>

\* SEED_PROMPTS, built when seed_data is imported, at clock reading now
\* (the author's name is written here in ASCII, and of each prompt text its
\* first word; the five readings of the clock are taken as one)
SEED_PROMPTS(now) ==
  <<PromptRecord(1, "API Client Generator", "API Development", "Erstelle",
                 "Daniel Jaehrling",
                 <<"python", "api", "rest", "client", "testing">>,
                 SEED_RATINGS[1], 2, 5, now),
    PromptRecord(2, "Data Pipeline Builder", "Data Processing", "Erstelle",
                 "Daniel Jaehrling",
                 <<"python", "etl", "pipeline", "batch", "data-processing">>,
                 SEED_RATINGS[2], 3, 8, now),
    PromptRecord(3, "Pytest Test Suite Generator", "Testing", "Generiere",
                 "Daniel Jaehrling",
                 <<"python", "testing", "pytest", "tdd", "quality">>,
                 SEED_RATINGS[3], 5, 12, now),
    PromptRecord(4, "CLI Tool with argparse", "DevOps/CI-CD", "Erstelle",
                 "Daniel Jaehrling",
                 <<"python", "cli", "argparse", "automation">>,
                 SEED_RATINGS[4], 4, 15, now),
    PromptRecord(5, "Refactoring: Extract Method", "Refactoring", "Refactore",
                 "Daniel Jaehrling",
                 <<"refactoring", "clean-code", "maintainability">>,
                 SEED_RATINGS[5], 3, 7, now)>>

(***************************************************************************)
(* The store.  The file is absent, or holds a collection ("ok"), or holds  *)
(* text that is not one JSON document ("corrupt": a file opened for        *)
(* writing and not yet written, or overwritten by a shorter document).     *)
(* json.dump followed by json.load gives back the same list: ints and strs *)
(* as they are and every double by its shortest round-trip repr.           *)
(***************************************************************************)
Absent == [kind |-> "absent", coll |-> << >>]
Stored(prompts) == [kind |-> "ok", coll |-> prompts]
Corrupt == [kind |-> "corrupt", coll |-> << >>]

\* load_prompts(), for a file json.load can read
load_prompts(f) == IF f.kind = "ok" THEN f.coll ELSE << >>

\* whether load_prompts() raises (json.JSONDecodeError)
load_raises(f) == f.kind = "corrupt"

\* save_prompts(prompts), the file once written and closed
save_prompts(prompts) == Stored(prompts)

\* the scan without its break: the last record with the id is the one left changed
FirstMatch_Last(prompts, prompt_id) ==
  LET hits == {i \in 1..Len(prompts) : prompts[i].id = prompt_id}
  IN IF hits = {} THEN 0 ELSE CHOOSE i \in hits : \A j \in hits : i >= j

\* the index of the first record of prompts whose id is prompt_id, or 0
FirstMatch(prompts, prompt_id) ==
  LET hits == {i \in 1..Len(prompts) : prompts[i].id = prompt_id}
  IN IF hits = {} THEN 0 ELSE CHOOSE i \in hits : \A j \in hits : i <= j

\* add_prompt with "usage_count": 1, the creation counted as a use
new_prompt_UsedOnce(prompts, title, category, prompt, author, tags, now) ==
  PromptRecord(Len(prompts) + 1, title, category, prompt, author, tags,
               Zero, 0, 1, now)

\* add_prompt with "id": len(prompts), the + 1 forgotten
new_prompt_IdIsCount(prompts, title, category, prompt, author, tags, now) ==
  PromptRecord(Len(prompts), title, category, prompt, author, tags,
               Zero, 0, 0, now)

\* the record add_prompt builds
new_prompt(prompts, title, category, prompt, author, tags, now) ==
  PromptRecord(Len(prompts) + 1, title, category, prompt, author, tags,
               Zero, 0, 0, now)

\* the list add_prompt saves
add_prompt(prompts, title, category, prompt, author, tags, now) ==
  Append(prompts, new_prompt(prompts, title, category, prompt, author, tags, now))

\* update_usage with p["usage_count"] =+ 1 for += 1
update_usage_Assign(prompts, prompt_id) ==
  LET i == FirstMatch(prompts, prompt_id)
  IN IF i = 0 THEN prompts
     ELSE [prompts EXCEPT ![i].usage_count = 1]

\* the list update_usage saves
update_usage(prompts, prompt_id) ==
  LET i == FirstMatch(prompts, prompt_id)
  IN IF i = 0 THEN prompts
     ELSE [prompts EXCEPT ![i].usage_count = @ + 1]

\* add_rating averaging the old rating and the new value
new_rating_Halved(p, rating) ==
  FDivInt(FAdd(p.rating, FFromInt(rating)), 2)

\* ((p["rating"] * p["votes"]) + rating) / (p["votes"] + 1)
new_rating(p, rating) ==
  FDivInt(FAdd(FMulInt(p.rating, p.votes), FFromInt(rating)), p.votes + 1)

\* add_rating with p["votes"] =+ 1 for += 1
add_rating_VotesAssign(prompts, prompt_id, rating) ==
  LET i == FirstMatch(prompts, prompt_id)
  IN IF i = 0 THEN prompts
     ELSE [prompts EXCEPT ![i].rating = new_rating(prompts[i], rating),
                          ![i].votes = 1]

\* the list add_rating saves
add_rating(prompts, prompt_id, rating) ==
  LET i == FirstMatch(prompts, prompt_id)
  IN IF i = 0 THEN prompts
     ELSE [prompts EXCEPT ![i].rating = new_rating(prompts[i], rating),
                          ![i].votes = @ + 1]

\* the form's check with author left out of the list
form_incomplete_NoAuthor(title, category, prompt, author) ==
  title = "" \/ category = "" \/ prompt = ""

\* not all([title, category, prompt, author])
form_incomplete(title, category, prompt, author) ==
  title = "" \/ category = "" \/ prompt = "" \/ author = ""

\* [tag.strip() for tag in tags_input.split(",") if tag.strip()]
RECURSIVE StripAll(_)
StripAll(pieces) ==
  IF pieces = << >> THEN << >>
  ELSE LET tag == StripChars(Head(pieces))
       IN (IF tag = << >> THEN << >> ELSE <<FromChars(tag)>>)
          \o StripAll(Tail(pieces))

parse_tags(tags_input) == StripAll(SplitChars(Chars(tags_input)))

(***************************************************************************)
(* The pages: the Browse page's filters and sort, the Statistics page's    *)
(* average.  created_at is the clock reading; the isoformat() strings the  *)
(* code compares are ordered as the instants they denote.                  *)
(***************************************************************************)
SortChoices == <<"Most Recent", "Most Used", "Highest Rated">>

\* [p for p in prompts if p["category"] == category_filter], unless "All"
filter_category(prompts, category_filter) ==
  LET Keep(p) == p.category = category_filter
  IN IF category_filter # "All" THEN SelectSeq(prompts, Keep) ELSE prompts

\* the records whose title, prompt or some tag contains search, in lower case
filter_search(prompts, search) ==
  LET search_lower == Lower(search)
      Keep(p) == \/ Contains(search_lower, Lower(p.title))
                 \/ Contains(search_lower, Lower(p.prompt))
                 \/ \E i \in 1..Len(p.tags) : Contains(search_lower, Lower(p.tags[i]))
  IN IF search # "" THEN SelectSeq(prompts, Keep) ELSE prompts

\* key(p) < key(q) for the key sort_by selects
KeyLess(sort_by, p, q) ==
  CASE sort_by = "Most Recent" -> p.created_at < q.created_at
    [] sort_by = "Most Used" -> p.usage_count < q.usage_count
    [] sort_by = "Highest Rated" -> FLess(p.rating, q.rating)

Reverse(s) == [i \in 1..Len(s) |-> s[Len(s) + 1 - i]]

\* p put into the ascending list s behind every record whose key is not larger
InsertAsc(s, p, sort_by) ==
  LET n == Cardinality({i \in 1..Len(s) : ~KeyLess(sort_by, p, s[i])})
  IN SubSeq(s, 1, n) \o <<p>> \o SubSeq(s, n + 1, Len(s))

\* list.sort(): ascending, equal keys in their order of arrival
RECURSIVE SortAsc(_, _)
SortAsc(s, sort_by) ==
  IF s = << >> THEN s
  ELSE InsertAsc(SortAsc(SubSeq(s, 1, Len(s) - 1), sort_by), s[Len(s)], sort_by)

\* reverse=True taken as "sort ascending, then reverse"
sorted_ReversedAfter(prompts, sort_by) == Reverse(SortAsc(prompts, sort_by))

\* sorted(prompts, key=..., reverse=True): the list is reversed, sorted
\* ascending and reversed again
sorted(prompts, sort_by) == Reverse(SortAsc(Reverse(prompts), sort_by))

\* sum(p["rating"] for p in prompts if p["votes"] > 0): added left to right
\* as doubles, starting from 0
RECURSIVE SumVoted(_, _)
SumVoted(prompts, n) ==
  IF n = 0 THEN Zero
  ELSE IF prompts[n].votes > 0
       THEN FAdd(SumVoted(prompts, n - 1), prompts[n].rating)
       ELSE SumVoted(prompts, n - 1)

\* avg_rating with len(prompts) for the divisor
avg_rating_OverAll(prompts) ==
  IF \E i \in 1..Len(prompts) : prompts[i].votes > 0
  THEN FDivInt(SumVoted(prompts, Len(prompts)), Len(prompts))
  ELSE Zero

\* avg_rating of the Statistics page
avg_rating(prompts) ==
  IF \E i \in 1..Len(prompts) : prompts[i].votes > 0
  THEN FDivInt(SumVoted(prompts, Len(prompts)),
               Cardinality({i \in 1..Len(prompts) : prompts[i].votes > 0}))
  ELSE Zero

\* sum(p["usage_count"] for p in prompts)
RECURSIVE total_usage(_)
total_usage(prompts) ==
  IF prompts = << >> THEN 0
  ELSE prompts[1].usage_count + total_usage(Tail(prompts))

(***************************************************************************)
(* The state                                                               *)
(*   file   the persisted resource data/prompts.json                       *)
(*   view   what the page rendered last                                    *)
(*   w      the requests in flight, when requests run concurrently         *)
(* and, recorded for the properties only,                                  *)
(*   last   the operation that ran last and its arguments                  *)
(*   hist   per id: how the record came to be ("added" by add_prompt,      *)
(*          "seeded"), the update_usage calls and the add_rating calls     *)
(*          (their number and the sum of their values) that found it since *)
(*   nops   the number of operations run (of steps, for requests at once)  *)
(***************************************************************************)
VARIABLES file, view, w, last, hist, nops

vars == <<file, view, w, last, hist, nops>>

\* Bounds of the model
MaxOps == 3
MaxRatingOps == 9

\* Inputs: clock readings (datetime.now() need not grow: the clock is the
\* local wall clock), form fields, and some of the ratings the page offers
Clock == {0, 1}
SomeRatings == {RatingChoices[2], RatingChoices[5]}
Titles == {"", "T"}
Bodies == {"", "body"}
Authors == {"", "Alice"}
FormCategories == {CATEGORIES[2]}
TagInputs == {"", " x ,,y"}
\* the arguments of a direct call of add_prompt: all given, one empty, all empty
DirectArgs ==
  {<<"T", "Testing", "body", "Alice">>, <<"", "Testing", "body", "Alice">>,
   <<"T", "", "body", "Alice">>, <<"T", "Testing", "", "Alice">>,
   <<"T", "Testing", "body", "">>, <<"", "", "", "">>}

\* what a page shows: kind, and for the Browse page the list found by the
\* filters, the sort chosen and the rows listed; for the Statistics page avg
NoView == [kind |-> "none", found |-> << >>, sort_by |-> "", rows |-> << >>, avg |-> Zero]
Message(kind) == [NoView EXCEPT !.kind = kind]

\* whether the four required fields are all given
AllGiven(title, category, prompt, author) ==
  title # "" /\ category # "" /\ prompt # "" /\ author # ""

Op(name, id, rating, valid) == [op |-> name, id |-> id, rating |-> rating, valid |-> valid]

NewHist(origin) == [origin |-> origin, uses |-> 0, k |-> 0, sum |-> 0]

\* hist after add_prompt appended a record to prompts
HistAdd(prompts) == (Len(prompts) + 1 :> NewHist("added")) @@ hist

\* hist after update_usage(prompt_id) on prompts
HistUse(prompts, prompt_id) ==
  IF FirstMatch(prompts, prompt_id) # 0 /\ prompt_id \in DOMAIN hist
  THEN [hist EXCEPT ![prompt_id].uses = @ + 1] ELSE hist

\* hist after add_rating(prompt_id, rating) on prompts
HistRate(prompts, prompt_id, rating) ==
  IF FirstMatch(prompts, prompt_id) # 0 /\ prompt_id \in DOMAIN hist
  THEN [hist EXCEPT ![prompt_id].k = @ + 1, ![prompt_id].sum = @ + rating]
  ELSE hist

\* the file after a mutator that loaded it and saves prompts
Written(prompts) == IF load_raises(file) THEN file ELSE save_prompts(prompts)

Init ==
  /\ file = Absent
  /\ view = NoView
  /\ w = << >>
  /\ last = Op("init", 0, 0, TRUE)
  /\ hist = << >>
  /\ nops = 0

\* a call of add_prompt
AddPrompt(title, category, prompt, author, tags, now) ==
  LET prompts == load_prompts(file) IN
  /\ file' = Written(add_prompt(prompts, title, category, prompt, author, tags, now))
  /\ view' = view
  /\ last' = Op("add_prompt", 0, 0, AllGiven(title, category, prompt, author))
  /\ hist' = HistAdd(prompts)
  /\ nops' = nops + 1
  /\ UNCHANGED w

\* the Submit Prompt form, submitted
SubmitForm(title, category, prompt, author, tags_input, now) ==
  LET prompts == load_prompts(file) IN
  /\ IF form_incomplete(title, category, prompt, author)
     THEN /\ view' = Message("error")
          /\ UNCHANGED <<file, hist>>
     ELSE /\ file' = Written(add_prompt(prompts, title, category, prompt, author,
                                        parse_tags(tags_input), now))
          /\ view' = Message("success")
          /\ hist' = HistAdd(prompts)
  /\ last' = Op("submit", 0, 0, AllGiven(title, category, prompt, author))
  /\ nops' = nops + 1
  /\ UNCHANGED w

\* the Copy button: update_usage(prompt_id)
UpdateUsage(prompt_id) ==
  LET prompts == load_prompts(file) IN
  /\ file' = Written(update_usage(prompts, prompt_id))
  /\ view' = Message("success")
  /\ last' = Op("update_usage", prompt_id, 0, TRUE)
  /\ hist' = HistUse(prompts, prompt_id)
  /\ nops' = nops + 1
  /\ UNCHANGED w

\* the Submit Rating button: add_rating(prompt_id, rating)
AddRating(prompt_id, rating) ==
  LET prompts == load_prompts(file) IN
  /\ file' = Written(add_rating(prompts, prompt_id, rating))
  /\ view' = Message("success")
  /\ last' = Op("add_rating", prompt_id, rating, TRUE)
  /\ hist' = HistRate(prompts, prompt_id, rating)
  /\ nops' = nops + 1
  /\ UNCHANGED w

\* seed_prompts(), run from the command line
Seed(now) ==
  /\ file' = Stored(SEED_PROMPTS(now))
  /\ view' = view
  /\ last' = Op("seed", 0, 0, TRUE)
  /\ hist' = [i \in 1..Len(file'.coll) |-> NewHist("seeded")]
  /\ nops' = nops + 1
  /\ UNCHANGED w

\* the ids a caller may name: those of the collection and one beyond
TargetIds == 1..(Len(load_prompts(file)) + 1)

DirectAddPrompt ==
  /\ nops < MaxOps
  /\ \E a \in DirectArgs, now \in Clock :
       AddPrompt(a[1], a[2], a[3], a[4], <<"x">>, now)

FormSubmitted ==
  /\ nops < MaxOps
  /\ \E title \in Titles, category \in FormCategories, prompt \in Bodies,
        author \in Authors, tags_input \in TagInputs, now \in Clock :
       SubmitForm(title, category, prompt, author, tags_input, now)

CopyClicked ==
  /\ nops < MaxOps
  /\ \E prompt_id \in TargetIds : UpdateUsage(prompt_id)

RatingSubmitted ==
  /\ nops < MaxOps
  /\ \E prompt_id \in TargetIds, rating \in SomeRatings :
       AddRating(prompt_id, rating)

SeedRun ==
  /\ nops < MaxOps
  /\ \E now \in Clock : Seed(now)

Next ==
  \/ DirectAddPrompt
  \/ FormSubmitted
  \/ CopyClicked
  \/ RatingSubmitted
  \/ SeedRun

Spec == Init /\ [][Next]_vars

(***************************************************************************)
(* A prompt submitted to the empty store and rated again and again, with   *)
(* every rating the page offers, for as long as MaxRatingOps allows.       *)
(***************************************************************************)
PromptSubmitted ==
  /\ nops < MaxRatingOps
  /\ load_prompts(file) = << >>
  /\ SubmitForm("T", "Testing", "body", "Alice", "x, ", 0)

PromptRated ==
  /\ nops < MaxRatingOps
  /\ \E prompt_id \in TargetIds, rating \in Range(RatingChoices) :
       AddRating(prompt_id, rating)

NextRating == PromptSubmitted \/ PromptRated

SpecRating == Init /\ [][NextRating]_vars

(***************************************************************************)
(* The pages and the mutators on whatever collection the file holds.       *)
(* data/prompts.json is a JSON file the app reads as it finds it: records  *)
(* may share an id, and a record may carry a rating with no votes.  The    *)
(* ratings of Records are doubles whose sums are exact.                     *)
(***************************************************************************)
MaxColl == 3
MaxCollOps == 1

Records ==
  <<PromptRecord(1, "T", "Testing", "body", "Alice", <<"x">>,
                 SEED_RATINGS[1], 2, 5, 0),
    PromptRecord(1, "MOCK", "Testing", "body", "Alice", <<"y">>,
                 SEED_RATINGS[1], 0, 8, 1),
    PromptRecord(2, "T", "Other", "body", "Daniel Jaehrling", <<"x">>,
                 SEED_RATINGS[2], 3, 8, 0),
    PromptRecord(2, "x", "Testing", "MOCK", "Alice", << >>,
                 Zero, 0, 0, 1)>>

Collections == UNION {[1..n -> Range(Records)] : n \in 0..MaxColl}

CategoryFilters == {"All", CATEGORIES[2]}
Searches == {"", "MOCK"}

InitColl ==
  /\ file \in {Stored(c) : c \in Collections}
  /\ view = NoView
  /\ w = << >>
  /\ last = Op("init", 0, 0, TRUE)
  /\ hist = << >>
  /\ nops = 0

\* the Browse page, rendered
Browse(search, category_filter, sort_by) ==
  LET found == filter_search(filter_category(load_prompts(file), category_filter),
                             search)
      prompts == sorted(found, sort_by)
  IN /\ view' = [kind |-> IF prompts = << >> THEN "info" ELSE "browse",
                 found |-> found, sort_by |-> sort_by, rows |-> prompts,
                 avg |-> Zero]
     /\ last' = Op("browse", 0, 0, TRUE)
     /\ nops' = nops + 1
     /\ UNCHANGED <<file, w, hist>>

\* the Statistics page, rendered
Statistics ==
  LET prompts == load_prompts(file)
  IN /\ view' = IF prompts = << >> THEN Message("info")
                ELSE [kind |-> "stats", found |-> << >>, sort_by |-> "",
                      rows |-> << >>, avg |-> avg_rating(prompts),
                      total |-> Len(prompts), usage |-> total_usage(prompts),
                      contributors |->
                        Cardinality({prompts[i].author : i \in 1..Len(prompts)})]
     /\ last' = Op("statistics", 0, 0, TRUE)
     /\ nops' = nops + 1
     /\ UNCHANGED <<file, w, hist>>

BrowseShown ==
  /\ nops < MaxCollOps
  /\ \E search \in Searches, category_filter \in CategoryFilters,
        sort_by \in Range(SortChoices) :
       Browse(search, category_filter, sort_by)

StatisticsShown ==
  /\ nops < MaxCollOps
  /\ Statistics

UsageTracked ==
  /\ nops < MaxCollOps
  /\ \E prompt_id \in TargetIds : UpdateUsage(prompt_id)

RatingGiven ==
  /\ nops < MaxCollOps
  /\ \E prompt_id \in TargetIds, rating \in SomeRatings :
       AddRating(prompt_id, rating)

NextColl == BrowseShown \/ StatisticsShown \/ UsageTracked \/ RatingGiven

SpecColl == InitColl /\ [][NextColl]_vars

(***************************************************************************)
(* Two requests at once.  Each Streamlit session runs its handler in its   *)
(* own thread, and nothing locks the file: a mutator is a load (the file   *)
(* read; the change is then made to the list in memory), an open for       *)
(* writing, which empties the file, and the write of the document, done    *)
(* when the file is closed.  A load that finds the file emptied raises.    *)
(* A document written over one that another request wrote while this       *)
(* request had the file open replaces it byte for byte from the start: it  *)
(* leaves this request's document, or, when the other one was longer, this *)
(* document followed by the other's tail, which json.load rejects.         *)
(* Here nops counts the steps taken, and each request notes the steps at   *)
(* which it loaded, opened and closed the file.                            *)
(***************************************************************************)
Writers == {1, 2}

Idle ==
  [pc |-> "idle", op |-> "", id |-> 0, rating |-> 0, local |-> << >>,
   loaded |-> 0, opened |-> 0, saved |-> 0, overwrites |-> FALSE]

\* the requests a session may send
Requests ==
  {Op("add_rating", id, rating, TRUE) : id \in {1, 2}, rating \in SomeRatings}
    \cup {Op("update_usage", id, 0, TRUE) : id \in {1, 2}}

\* the list a reader is given in place of the file's, with every load made
\* to see the change another request has made in memory and not yet saved
LoadedBy_SeeingPending(i, f, ws) ==
  LET pending == {j \in Writers \ {i} : ws[j].pc \in {"loaded", "open"}}
  IN IF pending = {} THEN load_prompts(f)
     ELSE ws[CHOOSE j \in pending : TRUE].local

\* the list request i is given by load_prompts(): the file's
LoadedBy(i, f, ws) == load_prompts(f)

\* the list the mutator saves
Mutated(prompts, req) ==
  IF req.op = "add_rating" THEN add_rating(prompts, req.id, req.rating)
  ELSE update_usage(prompts, req.id)

InitConc ==
  /\ file = Stored(SEED_PROMPTS(0))
  /\ view = NoView
  /\ w = [i \in Writers |-> Idle]
  /\ last = Op("init", 0, 0, TRUE)
  /\ hist = << >>
  /\ nops = 0

\* load_prompts() and the change in memory, or the exception json.load raises
LoadStep ==
  \E i \in Writers, req \in Requests :
    /\ w[i].pc = "idle"
    /\ w' = [w EXCEPT ![i] =
               IF load_raises(file) THEN [@ EXCEPT !.pc = "failed", !.op = req.op,
                                            !.id = req.id, !.rating = req.rating,
                                            !.loaded = nops + 1]
               ELSE [@ EXCEPT !.pc = "loaded", !.op = req.op, !.id = req.id,
                              !.rating = req.rating, !.loaded = nops + 1,
                              !.local = Mutated(LoadedBy(i, file, w), req)]]
    /\ nops' = nops + 1
    /\ UNCHANGED <<file, view, last, hist>>

\* save_prompts: open(DATA_FILE, 'w')
OpenStep ==
  \E i \in Writers :
    /\ w[i].pc = "loaded"
    /\ w' = [w EXCEPT ![i].pc = "open", ![i].opened = nops + 1,
                      ![i].overwrites = FALSE]
    /\ file' = Corrupt
    /\ nops' = nops + 1
    /\ UNCHANGED <<view, last, hist>>

\* save_prompts: json.dump and the end of the with block
CloseStep ==
  \E i \in Writers :
    /\ w[i].pc = "open"
    /\ w' = [j \in Writers |->
               IF j = i THEN [w[j] EXCEPT !.pc = "done", !.saved = nops + 1]
               ELSE IF w[j].pc = "open" THEN [w[j] EXCEPT !.overwrites = TRUE]
               ELSE w[j]]
    /\ file' \in {save_prompts(w[i].local)}
                  \cup (IF w[i].overwrites THEN {Corrupt} ELSE {})
    /\ nops' = nops + 1
    /\ UNCHANGED <<view, last, hist>>

NextConc == LoadStep \/ OpenStep \/ CloseStep

SpecConc == InitConc /\ [][NextConc]_vars
(***************************************************************************)
(* Properties of the store under operations run one at a time (Spec)       *)
(***************************************************************************)
Coll == load_prompts(file)

\* the largest id of prompts, 0 for none
MaxIdOf(prompts) ==
  IF prompts = << >> THEN 0
  ELSE CHOOSE m \in {prompts[i].id : i \in 1..Len(prompts)} :
         \A i \in 1..Len(prompts) : prompts[i].id <= m

\* the step just taken ran operation name
Ran(name) == last'.op = name /\ nops' = nops + 1

\* C1: a valid submission (a call of add_prompt, or the form) leaves a
\* collection one longer, the old records first and unchanged, whose last
\* record has id = largest id before + 1 (1 for an empty collection),
\* rating 0, votes 0, usage_count 0 and no comments.
C1_AddPromptAppends ==
  [][((Ran("add_prompt") \/ Ran("submit")) /\ last'.valid) =>
       LET before == load_prompts(file)
           after == load_prompts(file')
       IN /\ Len(after) = Len(before) + 1
          /\ SubSeq(after, 1, Len(before)) = before
          /\ after[Len(after)].id = MaxIdOf(before) + 1
          /\ after[Len(after)].rating = Zero
          /\ after[Len(after)].votes = 0
          /\ after[Len(after)].usage_count = 0
          /\ after[Len(after)].comments = << >>]_vars

\* a prompt submitted through the form after a seed run and one more operation
C1_Witness ==
  /\ last.op = "submit" /\ last.valid
  /\ nops = 3
  /\ Len(Coll) = 6
  /\ Coll[6].id = 6 /\ Coll[6].votes = 0 /\ Coll[6].usage_count = 0

\* the usage_count a record started with
BaseUsage(origin, id) ==
  IF origin = "seeded" THEN SEED_PROMPTS(0)[id].usage_count ELSE 0

\* every record's usage_count is what it started with plus the number of
\* update_usage calls made for its id since
UsageCounted ==
  \A i \in 1..Len(Coll) :
    Coll[i].id \in DOMAIN hist =>
      Coll[i].usage_count
        = BaseUsage(hist[Coll[i].id].origin, Coll[i].id) + hist[Coll[i].id].uses

\* C3: k calls of update_usage for an existing id add exactly k to its
\* usage_count; update_usage or add_rating for an id no record has ends
\* normally and leaves the loaded collection as it was.
C3_UsageCountsAndMissingIdNoOp ==
  [][/\ UsageCounted'
     /\ ((Ran("update_usage") \/ Ran("add_rating"))
         /\ FirstMatch(load_prompts(file), last'.id) = 0) =>
          /\ load_prompts(file') = load_prompts(file)
          /\ view'.kind = "success"]_vars

\* a second update_usage call for the same existing id
C3_Witness ==
  /\ last.op = "update_usage"
  /\ last.id \in DOMAIN hist
  /\ hist[last.id].uses = 2
  /\ FirstMatch(Coll, last.id) # 0

\* C4 as stated: add_prompt itself rejects an empty required field, and then
\* nothing is written.
C4_AddPromptValidates ==
  [][((Ran("add_prompt") \/ Ran("submit")) /\ ~last'.valid) =>
       /\ file' = file
       /\ view'.kind = "error"]_vars

\* C4, amended: the form handler rejects an empty required field before it
\* calls add_prompt, shows an error and writes nothing; add_prompt called
\* directly checks nothing and appends the record.
C4_FormValidates ==
  [][/\ (Ran("submit") /\ ~last'.valid) =>
          /\ file' = file
          /\ view'.kind = "error"
     /\ (Ran("add_prompt") /\ ~last'.valid) =>
          Len(load_prompts(file')) = Len(load_prompts(file)) + 1]_vars

\* the form rejected a submission on a store that holds records
C4_Witness ==
  /\ last.op = "submit" /\ ~last.valid
  /\ view.kind = "error"
  /\ Len(Coll) >= 1

\* C5: no two records of the persisted collection have the same id.
C5_IdsUnique ==
  \A i, j \in 1..Len(Coll) : i # j => Coll[i].id # Coll[j].id

\* two prompts added after a seed run
C5_Witness ==
  /\ Len(Coll) = 7
  /\ last.op \in {"add_prompt", "submit"}

\* no record's usage_count or votes is lower after the step than before
CountersKept ==
  LET before == load_prompts(file)
      after == load_prompts(file')
  IN \A i \in 1..Len(before) :
       LET j == FirstMatch(after, before[i].id)
           i0 == FirstMatch(before, before[i].id)
       IN j # 0 =>
            /\ after[j].usage_count >= before[i0].usage_count
            /\ after[j].votes >= before[i0].votes

\* C6 as stated: usage_count and votes of the record with a given id never
\* decrease, whatever operation runs, a seed run included.
C6_CountersNeverDecrease == [][CountersKept]_vars

\* C6, amended: they never decrease across add_prompt, update_usage and
\* add_rating; a seed run writes the starter values whatever was there.
C6_CountersKeptByMutators == [][~Ran("seed") => CountersKept]_vars

\* a rating added to a seeded record that was used before
C6_Witness ==
  /\ last.op = "add_rating"
  /\ last.id \in DOMAIN hist
  /\ hist[last.id].origin = "seeded"
  /\ hist[last.id].k = 1 /\ hist[last.id].uses = 1
(***************************************************************************)
(* Properties of repeated ratings (SpecRating)                             *)
(***************************************************************************)
\* the double nearest to sum / k: what Python's sum / k is
MeanOf(sum, k) == FDivInt(FFromInt(sum), k)

\* the records add_prompt made, with what hist says of their ratings
AddedRecords ==
  {i \in 1..Len(Coll) :
     Coll[i].id \in DOMAIN hist /\ hist[Coll[i].id].origin = "added"}

\* C2 as stated: after k ratings r1..rk of a record add_prompt made, votes = k
\* and rating is the mean (r1 + ... + rk) / k.
C2_RatingIsMean ==
  \A i \in AddedRecords :
    LET h == hist[Coll[i].id] IN
    /\ Coll[i].votes = h.k
    /\ h.k >= 1 => Coll[i].rating = MeanOf(h.sum, h.k)

\* C2, amended: votes = k; the rating is 0 before the first rating, the mean
\* sum / k as a double for k <= 7, and always a double between 1 and 5;
\* from the eighth rating on the three roundings of each update can leave it
\* an ulp off the mean.
C2_RatingIsRoundedMean ==
  \A i \in AddedRecords :
    LET h == hist[Coll[i].id] IN
    /\ Coll[i].votes = h.k
    /\ h.k = 0 => Coll[i].rating = Zero
    /\ (h.k >= 1 /\ h.k <= 7) => Coll[i].rating = MeanOf(h.sum, h.k)
    /\ h.k >= 1 => /\ ~FLess(Coll[i].rating, FFromInt(1))
                   /\ ~FLess(FFromInt(5), Coll[i].rating)

\* add_rating(1, 5) then add_rating(1, 3) on a fresh prompt: rating 4.0, votes 2
C2_Witness ==
  /\ last.op = "add_rating" /\ last.id = 1 /\ last.rating = 3
  /\ Len(Coll) = 1
  /\ hist[1].k = 2 /\ hist[1].sum = 8
  /\ Coll[1].votes = 2
  /\ Coll[1].rating = FFromInt(4)
(***************************************************************************)
(* Properties of the pages and of the mutators on any collection (SpecColl) *)
(***************************************************************************)
HasVotes(p) == p.votes > 0

\* the ratings of s added up as doubles, first to last
RECURSIVE SumRatings(_)
SumRatings(s) ==
  IF s = << >> THEN Zero
  ELSE FAdd(SumRatings(SubSeq(s, 1, Len(s) - 1)), s[Len(s)].rating)

\* the mean rating of the records of prompts that have votes; 0 for none
MeanRating(prompts) ==
  LET voted == SelectSeq(prompts, HasVotes)
  IN IF voted = << >> THEN Zero ELSE FDivInt(SumRatings(voted), Len(voted))

\* C8: the average rating is the mean of rating over exactly the records
\* with votes > 0, and 0 when the collection is empty or no record has
\* votes; the Statistics page shows it for every collection that has records.
C8_AverageOverVoted ==
  [][Ran("statistics") =>
       LET prompts == load_prompts(file)
       IN /\ avg_rating(prompts) = MeanRating(prompts)
          /\ (\A i \in 1..Len(prompts) : prompts[i].votes = 0) =>
               avg_rating(prompts) = Zero
          /\ prompts # << >> =>
               view'.kind = "stats" /\ view'.avg = avg_rating(prompts)]_vars

\* the average of <<4.5 with no votes, 4.5 with 2 votes, 5.0 with 3 votes>>
\* is 4.75
C8_Witness ==
  /\ last.op = "statistics"
  /\ Coll = <<Records[2], Records[1], Records[3]>>
  /\ view.kind = "stats"
  /\ view.avg = FDivInt(FFromInt(19), 4)

\* p and q have the same key
SameKey(sort_by, p, q) == ~KeyLess(sort_by, p, q) /\ ~KeyLess(sort_by, q, p)

\* C9: the rows of the Browse page are the list found, rearranged: in
\* descending order of the key chosen, the records of each key value in the
\* order they had in the list found; sorting the rows again by the same key
\* leaves them as they are.
C9_SortStableDescending ==
  last.op = "browse" =>
    LET rows == view.rows
        found == view.found
        sort_by == view.sort_by
    IN /\ Len(rows) = Len(found)
       /\ \A i, j \in 1..Len(rows) :
            i < j => ~KeyLess(sort_by, rows[i], rows[j])
       /\ \A r \in Range(found) \cup Range(rows) :
            LET Tied(q) == SameKey(sort_by, q, r)
            IN SelectSeq(rows, Tied) = SelectSeq(found, Tied)
       /\ sorted(rows, sort_by) = rows

\* two records used 8 times each, listed behind one used 5 times, come first
\* and in their order
C9_Witness ==
  /\ last.op = "browse"
  /\ view.sort_by = "Most Used"
  /\ view.found = <<Records[1], Records[3], Records[2]>>
  /\ view.rows = <<Records[3], Records[2], Records[1]>>

\* C10: update_usage and add_rating leave the length and the order of the
\* collection, and every record but the first one with the id; of that one
\* update_usage changes usage_count only (by 1) and add_rating rating and
\* votes only (votes by 1).
C10_OnlyFirstMatchChanged ==
  [][(Ran("update_usage") \/ Ran("add_rating")) =>
       LET before == load_prompts(file)
           after == load_prompts(file')
           hits == {i \in 1..Len(before) : before[i].id = last'.id}
           kept == IF last'.op = "update_usage"
                   THEN {"usage_count"} ELSE {"rating", "votes"}
       IN /\ Len(after) = Len(before)
          /\ \A i \in 1..Len(before) :
               IF i \in hits /\ \A j \in hits : i <= j
               THEN /\ DOMAIN after[i] = DOMAIN before[i]
                    /\ \A f \in DOMAIN before[i] \ kept :
                         after[i][f] = before[i][f]
                    /\ last'.op = "update_usage" =>
                         after[i].usage_count = before[i].usage_count + 1
                    /\ last'.op = "add_rating" =>
                         after[i].votes = before[i].votes + 1
               ELSE after[i] = before[i]]_vars

\* update_usage(1) on a collection whose first two records both have id 1
C10_Witness ==
  /\ last.op = "update_usage" /\ last.id = 1
  /\ Len(Coll) = 3
  /\ Coll[1] = [Records[1] EXCEPT !.usage_count = 6]
  /\ Coll[2] = Records[2]
  /\ Coll[3] = Records[3]
(***************************************************************************)
(* Properties of two requests at once (SpecConc)                           *)
(***************************************************************************)
\* requests i and j both loaded before either opened the file for writing,
\* and j was the last to write
BothLoadedFirst(i, j) ==
  /\ i # j
  /\ w[i].pc = "done" /\ w[j].pc = "done"
  /\ w[i].loaded < w[j].opened /\ w[i].loaded < w[i].opened
  /\ w[j].loaded < w[i].opened /\ w[j].loaded < w[j].opened
  /\ w[i].saved < w[j].saved

\* C7: when two add_rating calls for the same id both load before either
\* saves, the collection left in the file is the one the second writer
\* saved: the record's votes are one more than before, not two, and its
\* rating is the one the second writer's value alone gives.
C7_LostUpdate ==
  \A i, j \in Writers :
    (/\ BothLoadedFirst(i, j)
     /\ w[i].op = "add_rating" /\ w[j].op = "add_rating"
     /\ w[i].id = w[j].id
     /\ file.kind = "ok") =>
       LET before == SEED_PROMPTS(0)
           after == file.coll
       IN /\ Len(after) = Len(before)
          /\ \A k \in 1..Len(before) :
               IF before[k].id = w[j].id
               THEN /\ after[k].votes = before[k].votes + 1
                    /\ after[k].rating = new_rating(before[k], w[j].rating)
               ELSE after[k] = before[k]

\* ratings 2 and 5 given to prompt 1 (4.5 from 2 votes) at once, the 5
\* written last: 3 votes and (4.5 * 2 + 5) / 3, the 2 gone
C7_Witness ==
  /\ BothLoadedFirst(1, 2)
  /\ w[1].op = "add_rating" /\ w[1].id = 1 /\ w[1].rating = 2
  /\ w[2].op = "add_rating" /\ w[2].id = 1 /\ w[2].rating = 5
  /\ file.kind = "ok"
  /\ file.coll[1].votes = 3
  /\ file.coll[1].rating = FDivInt(FFromInt(14), 3)
====
